---- MODULE Spec2Model ----
(***************************************************************************)
(* The page version word of foedus::storage::PageVersion (page.hpp) and    *)
(* the latch-free protocol built on it: lock_version, the bit mutators,    *)
(* unlock_version and stable_version, run by concurrent threads; then     *)
(* PageHeader and VolatilePageInitializer of the same file, the thread id  *)
(* functions of thread_id.hpp, ArrayStorageFactory::get_instance,          *)
(* assorted::FixedString, the common fields of storage::Metadata and       *)
(* savepoint::Savepoint::populate_empty.                                   *)
(*                                                                         *)
(* A 64-bit word is the set of the positions (0 = least significant) of    *)
(* its 1 bits: x & y is the intersection, x | y the union, and x + (1<<k)  *)
(* is a ripple carry from position k that is lost beyond bit 63.           *)
(***************************************************************************)
EXTENDS Integers, FiniteSets, Sequences, TLC

(***************************************************************************)
(* Bounds of the model.                                                    *)
(***************************************************************************)
\* lock_version() calls made in one behaviour of the writers alone
MaxCycles == 2
\* lock_version() calls made in one behaviour of the writers and a reader
MaxReadCycles == 1
\* largest number of unlock_version() stores a reader's history counts; above
\* MaxReadCycles, so that the counts are exact where the calls are bounded
MaxCounted == 2
\* bytes of Page::data_, the body of a page after its header
BodyBytes == 2
\* largest key count a writer sets or increments to
MaxKeyCount == 1
\* largest layer given to initialize()
MaxLayer == 1
\* the longest string given to a FixedString
MaxLen == 3
\* the largest number of loggers of a Savepoint
MaxLoggers == 2

Writers == {"w1", "w2"}
Readers == {"r1"}
Threads == Writers \cup Readers

(***************************************************************************)
(* Words.                                                                  *)
(***************************************************************************)
WordBits == 0..63

\* 1ULL << k
Bit(k) == {k}

\* the bits of the mask that selects `width` bits from bit `shift` up
Field(shift, width) == shift..(shift + width - 1)

RECURSIVE Pow2(_)
Pow2(n) == IF n = 0 THEN 1 ELSE 2 * Pow2(n - 1)

RECURSIVE ShiftLeft(_, _)
\* static_cast<uint64_t>(n) << shift, modulo 2^64
ShiftLeft(n, shift) ==
  IF n = 0 \/ shift > 63 THEN {}
  ELSE (IF n % 2 = 1 THEN {shift} ELSE {}) \cup ShiftLeft(n \div 2, shift + 1)

RECURSIVE ToInt(_)
\* the value of a word below 2^30
ToInt(w) == IF w = {} THEN 0 ELSE LET k == CHOOSE i \in w : TRUE IN Pow2(k) + ToInt(w \ {k})

\* (w & mask) >> shift
Extract(w, mask, shift) == ToInt({i - shift : i \in w \cap mask})

RECURSIVE AddBit(_, _)
\* w + (1ULL << k), modulo 2^64
AddBit(w, k) ==
  IF k > 63 THEN w
  ELSE IF k \in w THEN AddBit(w \ {k}, k + 1)
  ELSE w \cup {k}

(***************************************************************************)
(* The bit constants of the version word.                                  *)
(***************************************************************************)
kPageVersionLockedBit == Bit(63)
kPageVersionInsertingBit == Bit(62)
kPageVersionSplittingBit == Bit(61)
kPageVersionDeletedBit == Bit(60)
kPageVersionHasFosterChildBit == Bit(59)
kPageVersionIsBorderBit == Bit(58)
kPageVersionIsSupremumBit == Bit(57)
\* 0x01F8000000000000
\* a mask one bit too wide, reaching into the is_high_fence_supremum bit
InsertionCounterMaskWide == Field(51, 7)

kPageVersionInsertionCounterMask == Field(51, 6)
kPageVersionInsertionCounterShifts == 51
\* 0x0007FFFE00000000
kPageVersionSplitCounterMask == Field(33, 18)
kPageVersionSplitCounterShifts == 33
\* 0xFFFF0000
kPageVersionKeyCountMask == Field(16, 16)
kPageVersionKeyCountShifts == 16
\* 0x0000FF00
kPageVersionLayerMask == Field(8, 8)
kPageVersionLayerShifts == 8

\* the unlock mask without the foster child bit
UnlockMaskWithoutFosterChild ==
  kPageVersionIsBorderBit \cup kPageVersionKeyCountMask \cup kPageVersionLayerMask

\* the unlock mask with the inserting bit in it
UnlockMaskWithInserting ==
  kPageVersionInsertingBit
    \cup kPageVersionHasFosterChildBit
    \cup kPageVersionIsBorderBit
    \cup kPageVersionKeyCountMask
    \cup kPageVersionLayerMask

kPageVersionUnlockMask ==
  kPageVersionHasFosterChildBit
    \cup kPageVersionIsBorderBit
    \cup kPageVersionKeyCountMask
    \cup kPageVersionLayerMask

(***************************************************************************)
(* PageVersion: the methods as functions of the word data_.                *)
(***************************************************************************)
\* explicit PageVersion(uint64_t data)
PageVersion(data) == data

\* initialize() with the shift of the layer left out
initialize_unshifted(locked, has_foster_child, is_border_, is_high_fence_supremum_, layer) ==
  (IF locked THEN kPageVersionLockedBit ELSE {})
    \cup (IF has_foster_child THEN kPageVersionHasFosterChildBit ELSE {})
    \cup (IF is_border_ THEN kPageVersionIsBorderBit ELSE {})
    \cup (IF is_high_fence_supremum_ THEN kPageVersionIsSupremumBit ELSE {})
    \cup ShiftLeft(layer, 0)

\* data_ = 0; then the bits and the layer are ORed in
initialize(locked, has_foster_child, is_border_, is_high_fence_supremum_, layer) ==
  (IF locked THEN kPageVersionLockedBit ELSE {})
    \cup (IF has_foster_child THEN kPageVersionHasFosterChildBit ELSE {})
    \cup (IF is_border_ THEN kPageVersionIsBorderBit ELSE {})
    \cup (IF is_high_fence_supremum_ THEN kPageVersionIsSupremumBit ELSE {})
    \cup ShiftLeft(layer, kPageVersionLayerShifts)

is_locked(d) == d \cap kPageVersionLockedBit # {}
is_inserting(d) == d \cap kPageVersionInsertingBit # {}
is_splitting(d) == d \cap kPageVersionSplittingBit # {}
is_deleted(d) == d \cap kPageVersionDeletedBit # {}
has_foster_child(d) == d \cap kPageVersionHasFosterChildBit # {}
is_border(d) == d \cap kPageVersionIsBorderBit # {}
is_high_fence_supremum(d) == d \cap kPageVersionIsSupremumBit # {}
get_insert_counter(d) ==
  Extract(d, kPageVersionInsertionCounterMask, kPageVersionInsertionCounterShifts)
get_split_counter(d) ==
  Extract(d, kPageVersionSplitCounterMask, kPageVersionSplitCounterShifts)
get_key_count(d) == Extract(d, kPageVersionKeyCountMask, kPageVersionKeyCountShifts)
get_layer(d) == Extract(d, kPageVersionLayerMask, kPageVersionLayerShifts)

set_inserting(d) == d \cup kPageVersionInsertingBit
set_inserting_and_increment_key_count(d) ==
  AddBit(set_inserting(d), kPageVersionKeyCountShifts)
increment_key_count(d) == AddBit(d, kPageVersionKeyCountShifts)
\* the parameter is a uint8_t: the argument is converted modulo 256
set_key_count(d, key_count) ==
  (d \cap (WordBits \ kPageVersionKeyCountMask))
    \cup ShiftLeft(key_count % 256, kPageVersionKeyCountShifts)
set_splitting(d) == d \cup kPageVersionSplittingBit
set_has_foster_child(d, has) ==
  IF has THEN d \cup kPageVersionHasFosterChildBit
  ELSE d \cap (WordBits \ kPageVersionHasFosterChildBit)

\* the test with the locked bit added
StableVersionReturnsUnlocked(ver) ==
  ver \cap (kPageVersionLockedBit \cup kPageVersionInsertingBit
              \cup kPageVersionSplittingBit) = {}

\* the test with the inserting bit left out
StableVersionReturnsUnlessSplitting(ver) == ver \cap kPageVersionSplittingBit = {}

\* stable_version(): the test that ends the spin on the word just read
StableVersionReturns(ver) ==
  ver \cap (kPageVersionInsertingBit \cup kPageVersionSplittingBit) = {}

\* the loop goes on to the compare-and-swap whatever it read
LockVersionNeverContinues(ver) == FALSE

\* lock_version(): the test that sends the loop back without a compare-and-swap
LockVersionContinues(ver) == ver \cap kPageVersionLockedBit # {}

\* lock_version(): new_ver
\* the new word built from the locked bit alone
LockVersionNewVerBare(ver) == kPageVersionLockedBit

LockVersionNewVer(ver) == ver \cup kPageVersionLockedBit

\* a plain store in place of the compare-and-swap
\* a compare-and-swap that gives up although the word is as expected
CompareExchangeFails(mem, expected, desired) ==
  [mem |-> mem, expected |-> mem, ok |-> FALSE]

CompareExchangeBlind(mem, expected, desired) ==
  [mem |-> desired, expected |-> expected, ok |-> TRUE]

\* raw_atomic_compare_exchange_strong(&data_, &ver, new_ver) as called by
\* lock_version(): the memory word, the expected word and the result after it
CompareExchangeStrong(mem, expected, desired) ==
  IF mem = expected
  THEN [mem |-> desired, expected |-> expected, ok |-> TRUE]
  ELSE [mem |-> mem, expected |-> mem, ok |-> FALSE]

\* the insertion counter kept only when it is bumped
UnlockInsertionCounterLost(page_version) ==
  IF page_version \cap kPageVersionInsertingBit # {}
  THEN AddBit(page_version \cap kPageVersionInsertionCounterMask,
              kPageVersionInsertionCounterShifts)
  ELSE {}

\* unlock_version(): insertion_counter, as it stands at the assertion
UnlockInsertionCounter(page_version) ==
  LET insertion_counter == page_version \cap kPageVersionInsertionCounterMask
  IN IF page_version \cap kPageVersionInsertingBit # {}
     THEN AddBit(insertion_counter, kPageVersionInsertionCounterShifts)
     ELSE insertion_counter

\* the split counter carried over without its bump
UnlockSplitCounterNoBump(page_version) == page_version \cap kPageVersionSplitCounterMask

\* the split counter bumped only when the insertion counter is not
UnlockSplitCounterElseIf(page_version) ==
  LET split_counter == page_version \cap kPageVersionSplitCounterMask
  IN IF page_version \cap kPageVersionInsertingBit = {}
        /\ page_version \cap kPageVersionSplittingBit # {}
     THEN AddBit(split_counter, kPageVersionSplitCounterShifts)
     ELSE split_counter

\* unlock_version(): split_counter, as it stands at the assertion
UnlockSplitCounter(page_version) ==
  LET split_counter == page_version \cap kPageVersionSplitCounterMask
  IN IF page_version \cap kPageVersionSplittingBit # {}
     THEN AddBit(split_counter, kPageVersionSplitCounterShifts)
     ELSE split_counter

\* unlock_version(): the assertion on the two new counters
UnlockAssertion(page_version) ==
  UnlockInsertionCounter(page_version) \cap UnlockSplitCounter(page_version) = {}

\* unlock_version(): the word stored, from the word page_version read first
unlock_version(page_version) ==
  LET base == page_version \cap kPageVersionUnlockMask
  IN base \cup UnlockInsertionCounter(page_version) \cup UnlockSplitCounter(page_version)

(***************************************************************************)
(* The state: one PageVersion shared by writer threads, which run          *)
(* lock_version(); mutators; unlock_version(), and reader threads, which   *)
(* run stable_version() twice around a read of the page.                   *)
(***************************************************************************)
VARIABLES
  data_,    \* PageVersion::data_
  pc,       \* where each thread is
  ver,      \* each writer's local while it is live: ver (lock_version) or page_version
  cycles,   \* lock_version() calls made so far
  created,  \* history: the immutable fields the page was created with
  sect,     \* history: the critical section running or last run
  rd,       \* history: each reader's two readings and what completed in between
  call,     \* the last call of a function that is not a step of the protocol
  page,     \* a Page being initialized: its header and its body
  strings,  \* the FixedString objects, by capacity
  metas,    \* the storage Metadata objects
  savepoint \* the Savepoint object

\* what the steps of the protocol leave alone
components == <<strings, metas, savepoint>>
others == <<call, page, components>>

vars == <<data_, pc, ver, cycles, created, sect, rd, call, page,
          strings, metas, savepoint>>

None == <<>>

\* the largest values of the two counters
MaxInsertCounter == Pow2(Cardinality(kPageVersionInsertionCounterMask)) - 1
MaxSplitCounter == Pow2(Cardinality(kPageVersionSplitCounterMask)) - 1

\* a page right after initialize(), not yet locked
InitializeArgs ==
  {[has_foster_child |-> FALSE, is_border |-> TRUE, is_high_fence_supremum |-> FALSE, layer |-> 0],
   [has_foster_child |-> FALSE, is_border |-> TRUE, is_high_fence_supremum |-> TRUE, layer |-> MaxLayer],
   [has_foster_child |-> TRUE, is_border |-> FALSE, is_high_fence_supremum |-> FALSE, layer |-> MaxLayer],
   [has_foster_child |-> FALSE, is_border |-> FALSE, is_high_fence_supremum |-> TRUE, layer |-> 0]}

FreshWords ==
  {initialize(FALSE, a.has_foster_child, a.is_border, a.is_high_fence_supremum, a.layer) :
     a \in InitializeArgs}

\* the counters of a page that has been in use since initialize(): the word
\* after that many insert cycles and split cycles
UsedCounters ==
  {[ic |-> MaxInsertCounter, sc |-> 0],
   [ic |-> 0, sc |-> MaxSplitCounter],
   [ic |-> MaxInsertCounter, sc |-> MaxSplitCounter]}

UsedWords ==
  {PageVersion(initialize(FALSE, FALSE, TRUE, FALSE, 0)
                 \cup ShiftLeft(c.ic, kPageVersionInsertionCounterShifts)
                 \cup ShiftLeft(c.sc, kPageVersionSplitCounterShifts)) : c \in UsedCounters}

\* sect: phase is "none", "running" (from the compare-and-swap that took the lock
\* to the store of unlock_version()) or "ended"; pre is the word that
\* compare-and-swap replaced; ins and spl tell whether set_inserting() (alone or
\* with the key count increment) and set_splitting() were called in it
NoSection == [phase |-> "none", pre |-> {}, ins |-> FALSE, spl |-> FALSE]

\* rd[r]: v1 and v2 are the words the two stable_version() calls returned; done
\* and flagged count the critical sections, and those of them that called
\* set_inserting() or set_splitting(), whose unlock_version() stored between the
\* two; spun tells what the running call last spun on, and waited how many
\* unlock_version() stores followed that; the three counts stop at MaxCounted
NoReading == [v1 |-> {}, v2 |-> {}, done |-> 0, flagged |-> 0, spun |-> None, waited |-> 0]

Init ==
  /\ data_ \in FreshWords \cup UsedWords
  /\ pc = [t \in Threads |-> "idle"]
  /\ ver = [t \in Writers |-> {}]
  /\ cycles = 0
  /\ created = [is_border |-> is_border(data_),
                is_high_fence_supremum |-> is_high_fence_supremum(data_),
                layer |-> get_layer(data_),
                fresh |-> data_ \in FreshWords]
  /\ sect = NoSection
  /\ rd = [r \in Readers |-> NoReading]
  /\ call = None
  /\ page = None
  /\ strings = None
  /\ metas = None
  /\ savepoint = None

(***************************************************************************)
(* lock_version()                                                          *)
(***************************************************************************)
\* uint64_t ver = data_; if (ver & kPageVersionLockedBit) continue;
\* (ver is kept only while it is live, that is up to the compare-and-swap)
LockVersionRead(t) ==
  /\ IF LockVersionContinues(data_)
     THEN pc' = [pc EXCEPT ![t] = "lock_loop"] /\ ver' = [ver EXCEPT ![t] = {}]
     ELSE pc' = [pc EXCEPT ![t] = "lock_cas"] /\ ver' = [ver EXCEPT ![t] = data_]
  /\ UNCHANGED <<data_, created, sect, rd, others>>

\* a thread that makes at most `calls` calls of lock_version()
LockRead(t, calls) ==
  /\ \/ pc[t] = "idle" /\ cycles < calls /\ cycles' = cycles + 1
     \/ pc[t] = "lock_loop" /\ cycles' = cycles
  /\ LockVersionRead(t)

\* a thread that calls lock_version() again and again (its calls are not counted)
LockCall(t) ==
  /\ pc[t] = "idle"
  /\ UNCHANGED cycles
  /\ LockVersionRead(t)

\* the next turn of the loop of a thread inside lock_version()
LockSpin(t) ==
  /\ pc[t] = "lock_loop"
  /\ UNCHANGED cycles
  /\ LockVersionRead(t)

\* the compare-and-swap; lock_version() returns when it succeeds
LockCas(t) ==
  /\ pc[t] = "lock_cas"
  /\ LET r == CompareExchangeStrong(data_, ver[t], LockVersionNewVer(ver[t]))
     IN /\ data_' = r.mem
        /\ ver' = [ver EXCEPT ![t] = {}]
        /\ IF r.ok
           THEN /\ pc' = [pc EXCEPT ![t] = "locked"]
                /\ sect' = [phase |-> "running", pre |-> data_, ins |-> FALSE, spl |-> FALSE]
           ELSE /\ pc' = [pc EXCEPT ![t] = "lock_loop"]
                /\ UNCHANGED sect
  /\ UNCHANGED <<cycles, created, rd, others>>

(***************************************************************************)
(* The bit mutators, called by the thread that holds the lock.             *)
(***************************************************************************)
Mutate(t, d, ins, spl) ==
  /\ pc[t] = "locked"
  /\ data_' = d
  /\ sect' = [sect EXCEPT !.ins = @ \/ ins, !.spl = @ \/ spl]
  /\ UNCHANGED <<pc, ver, cycles, created, rd, others>>

SetInserting(t) == Mutate(t, set_inserting(data_), TRUE, FALSE)

SetInsertingAndIncrementKeyCount(t) ==
  /\ get_key_count(data_) < MaxKeyCount
  /\ Mutate(t, set_inserting_and_increment_key_count(data_), TRUE, FALSE)

IncrementKeyCount(t) ==
  /\ get_key_count(data_) < MaxKeyCount
  /\ Mutate(t, increment_key_count(data_), FALSE, FALSE)

SetKeyCount(t) ==
  \E k \in 0..MaxKeyCount : Mutate(t, set_key_count(data_, k), FALSE, FALSE)

SetSplitting(t) == Mutate(t, set_splitting(data_), FALSE, TRUE)

SetHasFosterChild(t) ==
  \E has \in BOOLEAN : Mutate(t, set_has_foster_child(data_, has), FALSE, FALSE)

(***************************************************************************)
(* unlock_version()                                                        *)
(***************************************************************************)
\* uint64_t page_version = data_;
UnlockRead(t) ==
  /\ pc[t] = "locked"
  /\ ver' = [ver EXCEPT ![t] = data_]
  /\ pc' = [pc EXCEPT ![t] = "unlock_store"]
  /\ UNCHANGED <<data_, cycles, created, sect, rd, others>>

\* a reader between its two readings counts the critical sections that end,
\* and a spinning reader the stores it has waited for
Counted(r, flagged) ==
  LET between == pc[r] \in {"read", "sv2"}
      spinning == pc[r] \in {"sv1", "sv2"}
  IN [rd[r] EXCEPT !.done = IF between /\ @ < MaxCounted THEN @ + 1 ELSE @,
                   !.flagged = IF between /\ flagged /\ @ < MaxCounted THEN @ + 1 ELSE @,
                   !.waited = IF spinning /\ @ < MaxCounted THEN @ + 1 ELSE @]

\* data_ = base | insertion_counter | split_counter;
UnlockStore(t) ==
  /\ pc[t] = "unlock_store"
  /\ data_' = unlock_version(ver[t])
  /\ pc' = [pc EXCEPT ![t] = "idle"]
  /\ ver' = [ver EXCEPT ![t] = {}]
  /\ sect' = [sect EXCEPT !.phase = "ended"]
  /\ rd' = [r \in Readers |-> Counted(r, sect.ins \/ sect.spl)]
  /\ UNCHANGED <<cycles, created, others>>

(***************************************************************************)
(* stable_version(), called twice by a reader: v1, the read of the page,   *)
(* v2.                                                                     *)
(***************************************************************************)
\* uint64_t ver = data_; return PageVersion(ver) unless inserting or splitting
\* (ver is dead once tested, so it is not kept)
StableRead(r) ==
  /\ pc[r] \in {"idle", "sv1", "read", "sv2"}
  /\ LET first == pc[r] \in {"idle", "sv1"}
         called == pc[r] \in {"idle", "read"}
         spun == IF called THEN None ELSE rd[r].spun
         waited == IF called THEN 0 ELSE rd[r].waited
     IN IF StableVersionReturns(data_)
        THEN /\ pc' = [pc EXCEPT ![r] = IF first THEN "read" ELSE "done"]
             /\ rd' = [rd EXCEPT ![r] =
                         IF first
                         THEN [@ EXCEPT !.v1 = PageVersion(data_),
                                        !.spun = spun, !.waited = waited]
                         ELSE [@ EXCEPT !.v2 = PageVersion(data_),
                                        !.spun = spun, !.waited = waited]]
        ELSE /\ pc' = [pc EXCEPT ![r] = IF first THEN "sv1" ELSE "sv2"]
             /\ rd' = [rd EXCEPT ![r].spun =
                                   <<[pre |-> sect.pre, inserting |-> is_inserting(data_)]>>,
                                 ![r].waited = 0]
  /\ UNCHANGED <<data_, ver, cycles, created, sect, others>>

\* a step of a writer inside lock_version(), its critical section or unlock_version()
WriterStep(t) ==
  \/ LockCas(t)
  \/ SetInserting(t)
  \/ SetInsertingAndIncrementKeyCount(t)
  \/ IncrementKeyCount(t)
  \/ SetKeyCount(t)
  \/ SetSplitting(t)
  \/ SetHasFosterChild(t)
  \/ UnlockRead(t)
  \/ UnlockStore(t)

Next ==
  \/ \E t \in Writers : LockRead(t, MaxCycles)
  \/ \E t \in Writers : WriterStep(t)

\* the writers alone, on a page fresh from initialize() or one long in use
Spec == Init /\ [][Next]_vars

InitFresh == Init /\ created.fresh

\* the writers alone, on a page fresh from initialize()
SpecFresh == InitFresh /\ [][Next]_vars

\* the pages a reader is run on
ReadWords ==
  {initialize(FALSE, FALSE, TRUE, FALSE, 0),
   PageVersion(initialize(FALSE, FALSE, TRUE, FALSE, 0)
                 \cup ShiftLeft(MaxInsertCounter, kPageVersionInsertionCounterShifts))}

InitRead == Init /\ data_ \in ReadWords

NextRead ==
  \/ \E t \in Writers : LockRead(t, MaxReadCycles)
  \/ \E t \in Writers : WriterStep(t)
  \/ \E r \in Readers : StableRead(r)

\* the writers and a reader
SpecRead == InitRead /\ [][NextRead]_vars


(***************************************************************************)
(* Threads that never stop: a writer calls lock_version() again and again, *)
(* each critical section calling set_inserting() or no mutator, so that    *)
(* the insertion counter goes round its 64 values. A thread inside a loop  *)
(* keeps running it, and a lock holder goes on to unlock_version(); no     *)
(* thread has to start a call.                                             *)
(***************************************************************************)
\* the steps of such a writer
LoopingWriterStep(t) ==
  \/ LockCall(t)
  \/ LockSpin(t)
  \/ LockCas(t)
  \/ SetInserting(t)
  \/ UnlockRead(t)
  \/ UnlockStore(t)

WriterFairness(t) ==
  /\ WF_vars(LockSpin(t))
  /\ WF_vars(LockCas(t))
  /\ WF_vars(UnlockRead(t))
  /\ WF_vars(UnlockStore(t))

NextLock == \E t \in Writers : LoopingWriterStep(t)

\* two writers that never stop, on a fresh page
SpecLock ==
  /\ InitRead
  /\ [][NextLock]_vars
  /\ \A t \in Writers : WriterFairness(t)

\* the writer that runs beside the reader; alone, it never finds the word locked
LoopingWriters == {"w1"}

LoneWriterStep(t) ==
  \/ LockCall(t)
  \/ LockCas(t)
  \/ SetInserting(t)
  \/ UnlockRead(t)
  \/ UnlockStore(t)

\* one stable_version() call, the word it returns not recorded: a turn of the
\* loop reads data_ and the call returns unless inserting or splitting is set
StableCall(r) ==
  /\ pc[r] \in {"idle", "sv1"}
  /\ pc' = [pc EXCEPT ![r] = IF StableVersionReturns(data_) THEN "read" ELSE "sv1"]
  /\ UNCHANGED <<data_, ver, cycles, created, sect, rd, others>>

NextStable ==
  \/ \E t \in LoopingWriters : LoneWriterStep(t)
  \/ \E r \in Readers : StableCall(r)

\* a writer that never stops and a reader calling stable_version()
SpecStable ==
  /\ InitRead
  /\ [][NextStable]_vars
  /\ \A t \in LoopingWriters : WriterFairness(t)
  /\ \A r \in Readers : WF_vars(StableCall(r))


(***************************************************************************)
(* Functions that are not steps of the protocol: a call is one step, and   *)
(* call holds its arguments and its results.                               *)
(***************************************************************************)
\* what those calls leave alone
protocol == <<data_, pc, ver, cycles, created, sect, rd>>

InitCalls ==
  /\ Init
  /\ data_ = initialize(FALSE, FALSE, TRUE, FALSE, 0)

\* the values tried for a field of the given width: the smallest two and the largest
FieldValues(mask) == {0, 1, Pow2(Cardinality(mask)) - 1}

\* the fields of the version word and their masks
BitFields ==
  [locked |-> kPageVersionLockedBit,
   inserting |-> kPageVersionInsertingBit,
   splitting |-> kPageVersionSplittingBit,
   has_foster_child |-> kPageVersionHasFosterChildBit,
   is_border |-> kPageVersionIsBorderBit,
   is_high_fence_supremum |-> kPageVersionIsSupremumBit]

\* the word with the given field values, each at its place in the layout
ComposeWord(f) ==
  PageVersion(
    UNION {IF f[b] THEN BitFields[b] ELSE {} : b \in DOMAIN BitFields}
      \cup ShiftLeft(f.insert_counter, kPageVersionInsertionCounterShifts)
      \cup ShiftLeft(f.split_counter, kPageVersionSplitCounterShifts)
      \cup ShiftLeft(f.key_count, kPageVersionKeyCountShifts)
      \cup ShiftLeft(f.layer, kPageVersionLayerShifts))

\* what the getters return for a word
ReadFields(w) ==
  [locked |-> is_locked(w),
   inserting |-> is_inserting(w),
   splitting |-> is_splitting(w),
   has_foster_child |-> has_foster_child(w),
   is_border |-> is_border(w),
   is_high_fence_supremum |-> is_high_fence_supremum(w),
   insert_counter |-> get_insert_counter(w),
   split_counter |-> get_split_counter(w),
   key_count |-> get_key_count(w),
   layer |-> get_layer(w)]

\* a word is composed and read back (one call in a behaviour)
ComposeAndRead ==
  /\ call = None
  /\ \E bits \in [DOMAIN BitFields -> BOOLEAN],
     ic \in FieldValues(kPageVersionInsertionCounterMask),
     sc \in FieldValues(kPageVersionSplitCounterMask),
     kc \in FieldValues(kPageVersionKeyCountMask),
     layer \in FieldValues(kPageVersionLayerMask) :
    LET f == [b \in DOMAIN ReadFields({}) |->
                CASE b = "insert_counter" -> ic
                  [] b = "split_counter" -> sc
                  [] b = "key_count" -> kc
                  [] b = "layer" -> layer
                  [] OTHER -> bits[b]]
    IN /\ call' = [op |-> "compose", fields |-> f, word |-> ComposeWord(f),
                   read |-> ReadFields(ComposeWord(f))]
  /\ UNCHANGED <<protocol, page, components>>

NextLayout == ComposeAndRead

SpecLayout == InitCalls /\ [][NextLayout]_vars


(***************************************************************************)
(* initialize() called on memory that held some word before.               *)
(***************************************************************************)
\* words the memory may hold before: pages fresh and used, and all ones
PreviousWords == FreshWords \cup UsedWords \cup {PageVersion(WordBits)}

InitPrevious ==
  /\ data_ \in PreviousWords
  /\ pc = [t \in Threads |-> "idle"]
  /\ ver = [t \in Writers |-> {}]
  /\ cycles = 0
  /\ created = None
  /\ sect = NoSection
  /\ rd = [r \in Readers |-> NoReading]
  /\ call = None
  /\ page = None
  /\ strings = None
  /\ metas = None
  /\ savepoint = None

Initialize ==
  /\ call = None
  /\ \E locked, has, border, supremum \in BOOLEAN,
        layer \in FieldValues(kPageVersionLayerMask) :
       /\ data_' = initialize(locked, has, border, supremum, layer)
       /\ call' = [op |-> "initialize", previous |-> data_, locked |-> locked,
                   has_foster_child |-> has, is_border |-> border,
                   is_high_fence_supremum |-> supremum, layer |-> layer]
       /\ created' = [is_border |-> border, is_high_fence_supremum |-> supremum,
                      layer |-> layer, fresh |-> TRUE]
  /\ UNCHANGED <<pc, ver, cycles, sect, rd, page, components>>

NextInitialize == Initialize

SpecInitialize == InitPrevious /\ [][NextInitialize]_vars


(***************************************************************************)
(* PageHeader, Page and VolatilePageInitializer. A header is the record of *)
(* its fields, page_version_ a word as above; a page is its header and the *)
(* bytes of its body.                                                      *)
(***************************************************************************)
kUnknownPageType == 0
kHashDataPageType == 8

\* Epoch(), the invalid epoch
kEpochInvalid == 0
Epoch == kEpochInvalid

\* init_volatile() without the store to checksum_
init_volatile_keeps_checksum(header, page_id, storage_id, page_type, root) ==
  [header EXCEPT !.page_id_ = page_id,
                 !.storage_id_ = storage_id,
                 !.page_type_ = page_type,
                 !.snapshot_ = FALSE,
                 !.root_ = root,
                 !.stat_latest_modifier_ = 0,
                 !.stat_latest_modify_epoch_ = Epoch,
                 !.page_version_ = PageVersion({})]

init_volatile(header, page_id, storage_id, page_type, root) ==
  [header EXCEPT !.page_id_ = page_id,
                 !.storage_id_ = storage_id,
                 !.checksum_ = 0,
                 !.page_type_ = page_type,
                 !.snapshot_ = FALSE,
                 !.root_ = root,
                 !.stat_latest_modifier_ = 0,
                 !.stat_latest_modify_epoch_ = Epoch,
                 !.page_version_ = PageVersion({})]

init_snapshot(header, page_id, storage_id, page_type, root) ==
  [header EXCEPT !.page_id_ = page_id,
                 !.storage_id_ = storage_id,
                 !.checksum_ = 0,
                 !.page_type_ = page_type,
                 !.snapshot_ = TRUE,
                 !.root_ = root,
                 !.stat_latest_modifier_ = 0,
                 !.stat_latest_modify_epoch_ = Epoch,
                 !.page_version_ = PageVersion({})]

\* std::memset(page, 0, kPageSize)
ZeroedPage ==
  [header |-> [page_id_ |-> 0, storage_id_ |-> 0, checksum_ |-> 0, page_type_ |-> 0,
               snapshot_ |-> FALSE, root_ |-> FALSE, stat_latest_modifier_ |-> 0,
               stat_latest_modify_epoch_ |-> 0, page_version_ |-> PageVersion({})],
   data_ |-> [i \in 1..BodyBytes |-> 0]]

\* a page in use: a locked root snapshot page with a checksum and statistics
UsedPage ==
  [header |-> [page_id_ |-> 5, storage_id_ |-> 3, checksum_ |-> 77,
               page_type_ |-> kHashDataPageType,
               snapshot_ |-> TRUE, root_ |-> TRUE, stat_latest_modifier_ |-> 2,
               stat_latest_modify_epoch_ |-> 9,
               page_version_ |-> PageVersion(WordBits)],
   data_ |-> [i \in 1..BodyBytes |-> 255]]

\* what the memory of a page may hold before it is initialized
PreviousPages ==
  {ZeroedPage, UsedPage, [UsedPage EXCEPT !.header.snapshot_ = FALSE, !.header.root_ = FALSE]}

\* the arguments tried
PageIds == {0, 6}
StorageIds == {0, 1, 4}
PageTypes == kUnknownPageType..kHashDataPageType

InitPages ==
  /\ data_ = initialize(FALSE, FALSE, TRUE, FALSE, 0)
  /\ pc = [t \in Threads |-> "idle"]
  /\ ver = [t \in Writers |-> {}]
  /\ cycles = 0
  /\ created = None
  /\ sect = NoSection
  /\ rd = [r \in Readers |-> NoReading]
  /\ call = None
  /\ page \in PreviousPages
  /\ strings = None
  /\ metas = None
  /\ savepoint = None

InitVolatile ==
  /\ call = None
  /\ \E page_id \in PageIds, storage_id \in StorageIds, page_type \in PageTypes,
        root \in BOOLEAN :
       /\ page' = [page EXCEPT !.header =
                     init_volatile(@, page_id, storage_id, page_type, root)]
       /\ call' = [op |-> "init_volatile", previous |-> page, page_id |-> page_id,
                   storage_id |-> storage_id, page_type |-> page_type, root |-> root]
  /\ UNCHANGED <<protocol, components>>

InitSnapshot ==
  /\ call = None
  /\ \E page_id \in PageIds, storage_id \in StorageIds, page_type \in PageTypes,
        root \in BOOLEAN :
       /\ page' = [page EXCEPT !.header =
                     init_snapshot(@, page_id, storage_id, page_type, root)]
       /\ call' = [op |-> "init_snapshot", previous |-> page, page_id |-> page_id,
                   storage_id |-> storage_id, page_type |-> page_type, root |-> root]
  /\ UNCHANGED <<protocol, components>>


\* DummyVolatilePageInitializer: VolatilePageInitializer(0, kUnknownPageType, true)
kDummyPageInitializer ==
  [storage_id_ |-> 0, page_type_ |-> kUnknownPageType, root_ |-> TRUE, dummy |-> TRUE]

\* the dummy and initializers of derived classes, whose hook writes the body
Initializers ==
  {kDummyPageInitializer}
    \cup [storage_id_ : StorageIds, page_type_ : PageTypes, root_ : BOOLEAN, dummy : {FALSE}]

\* the statements with the hook first
InitializerStepsHookFirst == <<"initialize_more", "memset", "init_volatile">>

\* the statements of VolatilePageInitializer::initialize(), in order
InitializerSteps == <<"memset", "init_volatile", "initialize_more">>

\* the statement a running initialize() is at, "return" after the last
InitializerAt(step) ==
  /\ call # None
  /\ call.op = "initialize"
  /\ step = IF call.at <= Len(InitializerSteps) THEN InitializerSteps[call.at] ELSE "return"

\* initialize(page, page_id) is called on an initializer
InitializerCall ==
  /\ call = None
  /\ \E this \in Initializers, page_id \in PageIds :
       call' = [op |-> "initialize", at |-> 1, this |-> this, page_id |-> page_id,
                previous |-> page, seen |-> None]
  /\ UNCHANGED <<protocol, page, components>>

\* std::memset(page, 0, kPageSize);
InitializerMemset ==
  /\ InitializerAt("memset")
  /\ page' = ZeroedPage
  /\ call' = [call EXCEPT !.at = @ + 1]
  /\ UNCHANGED <<protocol, components>>

\* page->get_header().init_volatile(page_id, storage_id_, page_type_, root_);
InitializerInitVolatile ==
  /\ InitializerAt("init_volatile")
  /\ page' = [page EXCEPT !.header =
                init_volatile(@, call.page_id, call.this.storage_id_,
                              call.this.page_type_, call.this.root_)]
  /\ call' = [call EXCEPT !.at = @ + 1]
  /\ UNCHANGED <<protocol, components>>

\* initialize_more(page); seen is the page as the hook finds it. The hook of the
\* dummy does nothing, the hook of a derived class writes the body
InitializeMore ==
  /\ InitializerAt("initialize_more")
  /\ call' = [call EXCEPT !.at = @ + 1, !.seen = <<page>>]
  /\ IF call.this.dummy
     THEN page' = page
     ELSE \E body \in [1..BodyBytes -> {0, 1}] : page' = [page EXCEPT !.data_ = body]
  /\ UNCHANGED <<protocol, components>>

NextPages ==
  \/ InitVolatile
  \/ InitSnapshot
  \/ InitializerCall
  \/ InitializerMemset
  \/ InitializerInitVolatile
  \/ InitializeMore

SpecPages == InitPages /\ [][NextPages]_vars


(***************************************************************************)
(* ArrayStorageFactory::get_instance(engine, metadata, storage). Metadata  *)
(* is a record with its dynamic type; *storage is "nullptr", the storage   *)
(* it pointed to before, or the record of a new ArrayStorage.              *)
(***************************************************************************)
\* the metadata tried: ArrayMetadata with sizes from 0 up, and metadata of
\* another storage type
PayloadSizes == {0, 1, 16, 65535}
ArraySizes == {0, 1, 2, 1024, 65536}

Metadatas ==
  [type : {"ArrayMetadata"}, id_ : StorageIds, payload_size_ : PayloadSizes,
   array_size_ : ArraySizes]
    \cup [type : {"HashMetadata", "Metadata"}, id_ : StorageIds]

\* dynamic_cast<const ArrayMetadata*>(metadata)
CastToArrayMetadata(metadata) ==
  IF metadata.type = "ArrayMetadata" THEN <<metadata>> ELSE None

\* new ArrayStorage(engine, *casted, false)
NewArrayStorage(casted, create) ==
  [class |-> "ArrayStorage", metadata |-> casted, create |-> create]

\* get_instance() without the test of array_size_
get_instance_any_size(metadata, storage) ==
  LET casted == CastToArrayMetadata(metadata)
  IN IF casted = None
     THEN [result |-> "kErrorCodeStrWrongMetadataType", storage |-> storage, made |-> {}]
     ELSE IF casted[1].payload_size_ = 0
     THEN [result |-> "kErrorCodeStrArrayInvalidOption", storage |-> storage, made |-> {}]
     ELSE [result |-> "kRetOk", storage |-> NewArrayStorage(casted[1], FALSE),
           made |-> {NewArrayStorage(casted[1], FALSE)}]

\* the ErrorStack returned, *storage after the call and the storages made by it
get_instance(metadata, storage) ==
  LET casted == CastToArrayMetadata(metadata)
  IN IF casted = None
     THEN [result |-> "kErrorCodeStrWrongMetadataType", storage |-> storage, made |-> {}]
     ELSE IF casted[1].payload_size_ = 0
     THEN [result |-> "kErrorCodeStrArrayInvalidOption", storage |-> storage, made |-> {}]
     ELSE IF casted[1].array_size_ = 0
     THEN [result |-> "kErrorCodeStrArrayInvalidOption", storage |-> storage, made |-> {}]
     ELSE [result |-> "kRetOk", storage |-> NewArrayStorage(casted[1], FALSE),
           made |-> {NewArrayStorage(casted[1], FALSE)}]

\* return dynamic_cast<const ArrayMetadata*>(metadata) != nullptr;
is_right_metadata(metadata) == CastToArrayMetadata(metadata) # None

GetInstance ==
  /\ call = None
  /\ \E metadata \in Metadatas, storage \in {"nullptr", "storage before"} :
       call' = [op |-> "get_instance", metadata |-> metadata, before |-> storage,
                returned |-> get_instance(metadata, storage),
                right |-> is_right_metadata(metadata)]
  /\ UNCHANGED <<protocol, page, components>>

NextFactory == GetInstance

SpecFactory == InitCalls /\ [][NextFactory]_vars


(***************************************************************************)
(* foedus::thread (thread_id.hpp): ThreadId from ThreadGroupId and         *)
(* ThreadLocalOrdinal. Integers stand for themselves here.                 *)
(***************************************************************************)
kMaxThreadGroupId == 255
kMaxThreadLocalOrdinal == 255
kMaxThreadId == 65535

\* x | y and x & y on non-negative integers
RECURSIVE BitOr(_, _)
BitOr(x, y) ==
  IF x = 0 THEN y
  ELSE IF y = 0 THEN x
  ELSE (IF x % 2 = 1 \/ y % 2 = 1 THEN 1 ELSE 0) + 2 * BitOr(x \div 2, y \div 2)

RECURSIVE BitAnd(_, _)
BitAnd(x, y) ==
  IF x = 0 \/ y = 0 THEN 0
  ELSE (IF x % 2 = 1 /\ y % 2 = 1 THEN 1 ELSE 0) + 2 * BitAnd(x \div 2, y \div 2)

\* the conversion of an int to ThreadId (uint16_t) on return
ToThreadId(x) == x % (kMaxThreadId + 1)

\* a shift of four bits in place of eight
compose_thread_id_nibble(node, local_core) ==
  ToThreadId(BitOr(node * Pow2(4), local_core))

\* return (node << 8) | local_core;
compose_thread_id(node, local_core) ==
  ToThreadId(BitOr(node * Pow2(8), local_core))

\* return (global_id >> 8) & 0xFF;
decompose_numa_node(global_id) == BitAnd(global_id \div Pow2(8), 255)

\* return global_id & 0xFF;
decompose_numa_local_ordinal(global_id) == BitAnd(global_id, 255)

\* compose_thread_id() is called and its result decomposed
ComposeThreadId ==
  /\ call = None
  /\ \E node \in 0..kMaxThreadGroupId, local_core \in 0..kMaxThreadLocalOrdinal :
       LET id == compose_thread_id(node, local_core)
       IN call' = [op |-> "compose_thread_id", node |-> node, local_core |-> local_core,
                   id |-> id,
                   numa_node |-> decompose_numa_node(id),
                   local_ordinal |-> decompose_numa_local_ordinal(id)]
  /\ UNCHANGED <<protocol, page, components>>

\* a ThreadId is decomposed and the parts composed again
DecomposeThreadId ==
  /\ call = None
  /\ \E global_id \in 0..kMaxThreadId :
       LET node == decompose_numa_node(global_id)
           local_core == decompose_numa_local_ordinal(global_id)
       IN call' = [op |-> "decompose", id |-> global_id,
                   numa_node |-> node, local_ordinal |-> local_core,
                   composed |-> compose_thread_id(node, local_core)]
  /\ UNCHANGED <<protocol, page, components>>

NextThreadId == ComposeThreadId \/ DecomposeThreadId

SpecThreadId == InitCalls /\ [][NextThreadId]_vars


(***************************************************************************)
(* The properties.                                                         *)
(***************************************************************************)
\* a writer between the successful compare-and-swap of its lock_version() and
\* the store of its unlock_version()
InCriticalSection(t) == pc[t] \in {"locked", "unlock_store"}

\* C1: at most one thread is between the successful compare-and-swap of its
\* lock_version() and the store of its unlock_version(), and the
\* compare-and-swap that let it in changed the locked bit from 0 to 1.
C1_MutualExclusion ==
  /\ Cardinality({t \in Writers : InCriticalSection(t)}) <= 1
  /\ \A t \in Writers :
       InCriticalSection(t) =>
         /\ sect.phase = "running"
         /\ ~is_locked(sect.pre)
         /\ is_locked(data_)

\* C1 witness: one writer is in its critical section while the other, which read
\* the word before the lock was taken, is about to compare-and-swap
C1_Witness ==
  \E t, u \in Writers : t # u /\ InCriticalSection(t) /\ pc[u] = "lock_cas"


\* the comparison of the optimistic read protocol
SameCounters(v, w) ==
  /\ get_insert_counter(v) = get_insert_counter(w)
  /\ get_split_counter(v) = get_split_counter(w)

Unflagged(v) == ~is_inserting(v) /\ ~is_splitting(v)

\* a reader whose two readings passed the comparison
ReadingsAgree(r) ==
  /\ pc[r] = "done"
  /\ SameCounters(rd[r].v1, rd[r].v2)
  /\ Unflagged(rd[r].v1)
  /\ Unflagged(rd[r].v2)

\* C2 as stated: if the two readings of a reader have the same insertion counter
\* and the same split counter and neither has inserting or splitting set, no
\* writer critical section completed between them.
C2_NoSectionCompleted ==
  \A r \in Readers : ReadingsAgree(r) => rd[r].done = 0

\* C2 amended: if the two readings agree, no critical section that called
\* set_inserting() (alone or with the key count increment) or set_splitting()
\* completed between them, short of a full turn of the 6-bit insertion counter.
C2_NoFlaggedSectionCompleted ==
  \A r \in Readers :
    ReadingsAgree(r) => rd[r].flagged = 0 \/ rd[r].flagged > MaxInsertCounter

\* C2 witness: the readings agree although a critical section completed in between
C2_Witness ==
  \E r \in Readers : ReadingsAgree(r) /\ rd[r].done > 0 /\ ~is_locked(rd[r].v2)


\* C3 as stated: in no step does the value of get_insert_counter() or of
\* get_split_counter() decrease.
C3_CountersNeverDecrease ==
  [][/\ get_insert_counter(data_') >= get_insert_counter(data_)
     /\ get_split_counter(data_') >= get_split_counter(data_)]_vars

\* C3 amended: a counter decreases only by wrapping around: the insertion counter
\* only from 63, the split counter only from 2^18 - 1; in every other step
\* neither decreases.
C3_CountersDecreaseOnlyByWrap ==
  [][/\ get_insert_counter(data_') < get_insert_counter(data_)
          => get_insert_counter(data_) = MaxInsertCounter
     /\ get_split_counter(data_') < get_split_counter(data_)
          => get_split_counter(data_) = MaxSplitCounter]_vars

\* C3 witness: a critical section that called set_inserting() has ended on a page
\* whose insertion counter was 63 before, and the counter is 0 now
C3_Witness ==
  /\ sect.phase = "ended"
  /\ sect.ins
  /\ get_insert_counter(sect.pre) = MaxInsertCounter
  /\ get_insert_counter(data_) = 0


\* 1 if the mutator was called in the critical section, else 0
Bump(called) == IF called THEN 1 ELSE 0

\* C4: once a critical section has ended, the insertion counter is the pre-lock
\* value plus 1 (within its 6 bits) if set_inserting() was called in it, alone or
\* with the key count increment, and unchanged otherwise; the split counter is
\* the pre-lock value plus 1 (within its 18 bits) if set_splitting() was called
\* and unchanged otherwise.
C4_CycleBumpsItsCounters ==
  sect.phase = "ended" =>
    /\ get_insert_counter(data_) =
         (get_insert_counter(sect.pre) + Bump(sect.ins)) % (MaxInsertCounter + 1)
    /\ get_split_counter(data_) =
         (get_split_counter(sect.pre) + Bump(sect.spl)) % (MaxSplitCounter + 1)


\* C5 as stated: once a critical section has ended, whatever mutators were called
\* in it, at most one of the two counters differs from the pre-lock word.
C5_AtMostOneCounterBumped ==
  sect.phase = "ended" =>
    \/ get_insert_counter(data_) = get_insert_counter(sect.pre)
    \/ get_split_counter(data_) = get_split_counter(sect.pre)

\* the step in which writer t stores the word of unlock_version()
UnlockStoreStep(t) == pc[t] = "unlock_store" /\ pc'[t] = "idle"

\* C5 amended: an unlock_version() that reads a word with both inserting and
\* splitting set bumps both counters: both differ between the word it reads and
\* the word it stores.
C5_BothCountersBumped ==
  [][\A t \in Writers :
       UnlockStoreStep(t) /\ is_inserting(ver[t]) /\ is_splitting(ver[t]) =>
         /\ get_insert_counter(data_') # get_insert_counter(ver[t])
         /\ get_split_counter(data_') # get_split_counter(ver[t])]_vars

\* C5 witness: a critical section that called both set_inserting() and
\* set_splitting() has ended with both counters changed
C5_Witness ==
  /\ sect.phase = "ended"
  /\ sect.ins
  /\ sect.spl
  /\ get_insert_counter(data_) = get_insert_counter(sect.pre) + 1
  /\ get_split_counter(data_) = get_split_counter(sect.pre) + 1


\* C6: the word stored by unlock_version() has locked, inserting and splitting
\* clear, and its has_foster_child, is_border, key count and layer are those of
\* the word read at the start of unlock_version().
C6_UnlockKeepsMaskedFields ==
  [][\A t \in Writers :
       UnlockStoreStep(t) =>
         /\ ~is_locked(data_')
         /\ ~is_inserting(data_')
         /\ ~is_splitting(data_')
         /\ has_foster_child(data_') = has_foster_child(ver[t])
         /\ is_border(data_') = is_border(ver[t])
         /\ get_key_count(data_') = get_key_count(ver[t])
         /\ get_layer(data_') = get_layer(ver[t])]_vars

\* C6 witness: a critical section that set the foster child bit and a key count
\* and bumped both counters has ended on a border page of layer 1, unlocked
C6_Witness ==
  /\ sect.phase = "ended"
  /\ sect.ins
  /\ sect.spl
  /\ has_foster_child(data_)
  /\ ~has_foster_child(sect.pre)
  /\ get_key_count(data_) = MaxKeyCount
  /\ is_border(data_)
  /\ get_layer(data_) = MaxLayer
  /\ ~is_locked(data_)


\* C7: is_border(), is_high_fence_supremum() and get_layer() stay equal to the
\* values given to initialize() across lock_version, the bit mutators and
\* unlock_version.
C7_WriteOnceFields ==
  /\ is_border(data_) = created.is_border
  /\ is_high_fence_supremum(data_) = created.is_high_fence_supremum
  /\ get_layer(data_) = created.layer


\* C8: in every reachable state the inserting bit or the splitting bit is set
\* only if the locked bit is set; so the store that clears the locked bit clears
\* both, and a word with locked clear and inserting or splitting set is never
\* there to be read.
C8_FlagsOnlyWhileLocked ==
  (is_inserting(data_) \/ is_splitting(data_)) => is_locked(data_)

\* C8 witness: a critical section that set both bits has ended and the page is
\* unlocked
C8_Witness ==
  /\ sect.phase = "ended"
  /\ sect.ins
  /\ sect.spl
  /\ ~is_locked(data_)
  /\ \A t \in Writers : pc[t] = "idle"

\* the word the last stable_version() call of reader r returned
Returned(r) == IF pc[r] = "read" THEN rd[r].v1 ELSE rd[r].v2

\* C9: a word returned by stable_version() has neither inserting nor splitting
\* set; a call that spun on a word with one of them set returns only after an
\* unlock_version() stored; and if it spun on inserting, the insertion counter
\* of the word it returns is no longer that of the pre-lock word.
C9_StableVersionWaits ==
  \A r \in Readers :
    pc[r] \in {"read", "done"} =>
      /\ Unflagged(Returned(r))
      /\ rd[r].spun # None =>
           /\ rd[r].waited >= 1
           /\ rd[r].spun[1].inserting =>
                get_insert_counter(Returned(r)) # get_insert_counter(rd[r].spun[1].pre)

\* C9 witness: a stable_version() call spun on a word with inserting set and has
\* returned the word stored by that writer's unlock_version(), its insertion
\* counter one more than before the lock
C9_Witness ==
  \E r \in Readers :
    /\ pc[r] = "read"
    /\ rd[r].spun # None
    /\ rd[r].spun[1].inserting
    /\ rd[r].waited = 1
    /\ get_insert_counter(rd[r].v1) = get_insert_counter(rd[r].spun[1].pre) + 1

\* the bits in which two words differ
Differ(v, w) == (v \ w) \cup (w \ v)

\* the fields unlock_version() is to bump for the word it read
BumpedFields(page_version) ==
  (IF is_inserting(page_version) THEN kPageVersionInsertionCounterMask ELSE {})
    \cup (IF is_splitting(page_version) THEN kPageVersionSplitCounterMask ELSE {})

\* C10: the bumps of unlock_version() stay inside the bumped counters' fields:
\* the word it stores differs from the word it would store for the same word
\* without inserting and splitting only in bits of the counters it bumps.
C10_BumpStaysInField ==
  [][\A t \in Writers :
       UnlockStoreStep(t) =>
         Differ(data_', unlock_version(ver[t] \ (kPageVersionInsertingBit
                                                   \cup kPageVersionSplittingBit)))
           \subseteq BumpedFields(ver[t])]_vars


\* C11 as stated: under fair scheduling with every critical section ending in
\* unlock_version(), every stable_version() call that spins eventually returns.
C11_StableVersionReturns ==
  \A r \in Readers : (pc[r] = "sv1") ~> (pc[r] = "read")

\* C11 amended: if moreover from some point on the word has neither inserting
\* nor splitting set (only finitely many critical sections set them), every
\* stable_version() call that spins eventually returns.
C11_StableVersionReturnsOnceQuiet ==
  (<>[]Unflagged(data_)) => \A r \in Readers : (pc[r] = "sv1") ~> (pc[r] = "read")

\* C11 witness: a stable_version() call has returned after spinning while the
\* writer ended MaxCounted critical sections, and the writer is in the next one
C11_Witness ==
  \E r \in Readers :
    /\ pc[r] = "read"
    /\ rd[r].waited = MaxCounted
    /\ \E t \in LoopingWriters : pc[t] = "locked" /\ is_inserting(data_)


\* a thread inside the loop of lock_version()
Spinning(t) == pc[t] \in {"lock_loop", "lock_cas"}

\* C12: under fair scheduling with every lock holder going on to
\* unlock_version(), whenever a thread is spinning in lock_version() the lock,
\* if held, is eventually released, and if free, is eventually acquired by some
\* thread.
C12_SomeThreadAcquires ==
  /\ ((\E t \in Writers : Spinning(t)) /\ is_locked(data_)) ~> ~is_locked(data_)
  /\ ((\E t \in Writers : Spinning(t)) /\ ~is_locked(data_))
       ~> (\E t \in Writers : pc[t] = "locked")

\* C12 witness: a thread has been sent round the loop by a locked word, the
\* other thread has unlocked, called lock_version() again and read the word, and
\* both are about to compare-and-swap on the free lock
C12_Witness ==
  /\ \A t \in Writers : pc[t] = "lock_cas" /\ ver[t] = data_
  /\ sect.phase = "ended"
  /\ ~is_locked(data_)

\* the guarantee C12 says lock_version() does not give: every thread spinning in
\* it eventually acquires the lock
C12_EveryWaiterAcquires ==
  \A t \in Writers : Spinning(t) ~> (pc[t] = "locked")


\* C13: a step that changes the key count or the has_foster_child bit is a
\* mutator call of the thread that holds the lock, taken while the locked bit is
\* set and leaving it set; so no step of lock_version() or unlock_version()
\* changes either field.
C13_MutationOnlyByHolder ==
  [][(\/ get_key_count(data_') # get_key_count(data_)
      \/ has_foster_child(data_') # has_foster_child(data_))
       => /\ is_locked(data_)
          /\ is_locked(data_')
          /\ \E t \in Writers : pc[t] = "locked" /\ pc'[t] = "locked"
          /\ \A t \in Writers : pc'[t] = pc[t]]_vars

\* C13 witness: the lock holder has changed both the key count and the
\* has_foster_child bit, and the other thread is spinning in lock_version()
C13_Witness ==
  /\ sect.phase = "running"
  /\ get_key_count(data_) # get_key_count(sect.pre)
  /\ has_foster_child(data_) # has_foster_child(sect.pre)
  /\ \E t, u \in Writers : pc[t] = "locked" /\ pc[u] = "lock_loop"


\* the masks of the ten fields of the version word
FieldMasks ==
  {BitFields[b] : b \in DOMAIN BitFields}
    \cup {kPageVersionInsertionCounterMask, kPageVersionSplitCounterMask,
          kPageVersionKeyCountMask, kPageVersionLayerMask}

\* C14: the ten fields of the version word occupy pairwise disjoint bits, and a
\* word composed from field values within their widths gives back each value
\* through its getter.
C14_LayoutRoundTrip ==
  /\ Cardinality(FieldMasks) = 10
  /\ \A m, n \in FieldMasks : m # n => m \cap n = {}
  /\ call # None /\ call.op = "compose" => call.read = call.fields

\* C14 witness: a word with every flag set and every counter at its largest
\* value has been composed and read back
C14_Witness ==
  /\ call # None
  /\ call.op = "compose"
  /\ \A b \in DOMAIN BitFields : call.fields[b]
  /\ call.fields.insert_counter = MaxInsertCounter
  /\ call.fields.split_counter = MaxSplitCounter
  /\ call.fields.key_count = 65535
  /\ call.fields.layer = 255
  /\ call.word = (WordBits \ (0..7 \cup {32, 60}))


\* C15: for every group and local in 0..255, compose_thread_id(group, local) is
\* (group << 8) | local, that is 256 * group + local, and decomposes into group
\* and local again; and every ThreadId in 0..65535 is the composition of its two
\* parts, both in 0..255: compose_thread_id is one-to-one and onto.
C15_ThreadIdRoundTrip ==
  /\ call # None /\ call.op = "compose_thread_id" =>
       /\ call.id = 256 * call.node + call.local_core
       /\ call.numa_node = call.node
       /\ call.local_ordinal = call.local_core
  /\ call # None /\ call.op = "decompose" =>
       /\ call.numa_node \in 0..255
       /\ call.local_ordinal \in 0..255
       /\ call.composed = call.id

\* C15 witness: compose_thread_id(3, 17) has returned 0x0311
C15_Witness ==
  /\ call # None
  /\ call.op = "compose_thread_id"
  /\ call.node = 3
  /\ call.local_core = 17
  /\ call.id = 3 * 256 + 1 * 16 + 1


\* C16: after initialize(locked, has_foster_child, is_border,
\* is_high_fence_supremum, layer), whatever the word was before, the five fields
\* equal the arguments and inserting, splitting, deleted, the two counters and
\* the key count are 0.
C16_InitializeSetsFields ==
  call # None /\ call.op = "initialize" =>
    /\ ReadFields(data_) =
         [locked |-> call.locked,
          inserting |-> FALSE,
          splitting |-> FALSE,
          has_foster_child |-> call.has_foster_child,
          is_border |-> call.is_border,
          is_high_fence_supremum |-> call.is_high_fence_supremum,
          insert_counter |-> 0,
          split_counter |-> 0,
          key_count |-> 0,
          layer |-> call.layer]
    /\ ~is_deleted(data_)

\* C16 witness: initialize(false, false, false, false, 255) has run on a word
\* that had every bit set
C16_Witness ==
  /\ call # None
  /\ call.op = "initialize"
  /\ call.previous = WordBits
  /\ ~call.locked /\ ~call.has_foster_child /\ ~call.is_border
  /\ ~call.is_high_fence_supremum
  /\ call.layer = 255
  /\ data_ = 8..15


\* the header with the given identity and everything else zero
CleanHeader(page_id, storage_id, page_type, snapshot, root) ==
  [page_id_ |-> page_id, storage_id_ |-> storage_id, checksum_ |-> 0,
   page_type_ |-> page_type, snapshot_ |-> snapshot, root_ |-> root,
   stat_latest_modifier_ |-> 0, stat_latest_modify_epoch_ |-> 0, page_version_ |-> {}]

\* C17: after init_volatile() the header has snapshot false and after
\* init_snapshot() true; in both cases, whatever it held before, page_id,
\* storage_id, page_type and root are the arguments and checksum, the two stat
\* fields and the whole page_version word are zero.
C17_HeaderInit ==
  call # None /\ call.op \in {"init_volatile", "init_snapshot"} =>
    /\ page.header = CleanHeader(call.page_id, call.storage_id, call.page_type,
                                 call.op = "init_snapshot", call.root)
    /\ ReadFields(page.header.page_version_) = ReadFields({})
    /\ ~is_locked(page.header.page_version_)

\* C17 witness: init_volatile() has run on the header of a locked snapshot page
\* with a checksum and statistics
C17_Witness ==
  /\ call # None
  /\ call.op = "init_volatile"
  /\ call.previous = UsedPage
  /\ call.page_id = 6
  /\ call.root = FALSE
  /\ page.header.snapshot_ = FALSE


\* the header init_volatile() leaves for the running initialize() call
InitializedHeader ==
  CleanHeader(call.page_id, call.this.storage_id_, call.this.page_type_, FALSE,
              call.this.root_)

\* C18: initialize(page, page_id) zeroes the page, then calls init_volatile()
\* with the initializer's storage_id, page_type and root and the given page_id,
\* then calls the hook: the hook finds a zeroed body under an initialized
\* header, it has been called at return, and with the dummy initializer
\* everything outside page_id and root is zero at return.
C18_InitializerOrder ==
  call # None /\ call.op = "initialize" =>
    /\ call.seen # None =>
         call.seen[1] = [header |-> InitializedHeader, data_ |-> ZeroedPage.data_]
    /\ InitializerAt("return") =>
         /\ call.seen # None
         /\ call.this.dummy =>
              page = [ZeroedPage EXCEPT !.header.page_id_ = call.page_id,
                                        !.header.root_ = TRUE]

\* C18 witness: the dummy initializer has initialized a page that was in use,
\* with a page_id that is not zero
C18_Witness ==
  /\ InitializerAt("return")
  /\ call.this = kDummyPageInitializer
  /\ call.previous = UsedPage
  /\ call.page_id = 6
  /\ page.header.page_id_ = 6
  /\ page.header.root_


\* C19: get_instance() returns the wrong-metadata-type error for metadata that
\* is not an ArrayMetadata, otherwise the invalid-option error for payload_size
\* 0, otherwise the invalid-option error for array_size 0; in these cases it
\* makes no storage and leaves *storage as it was; otherwise (both sizes above
\* 0) it succeeds and *storage is one newly made ArrayStorage.
C19_FactoryValidates ==
  call # None /\ call.op = "get_instance" =>
    LET m == call.metadata
        r == call.returned
        unchanged == r.made = {} /\ r.storage = call.before
    IN /\ call.right = (m.type = "ArrayMetadata")
       /\ IF m.type # "ArrayMetadata"
          THEN r.result = "kErrorCodeStrWrongMetadataType" /\ unchanged
          ELSE IF m.payload_size_ = 0
          THEN r.result = "kErrorCodeStrArrayInvalidOption" /\ unchanged
          ELSE IF m.array_size_ = 0
          THEN r.result = "kErrorCodeStrArrayInvalidOption" /\ unchanged
          ELSE /\ r.result = "kRetOk"
               /\ r.made = {r.storage}
               /\ r.storage.class = "ArrayStorage"
               /\ r.storage.metadata = m
       /\ r.result = "kRetOk" <=>
            (m.type = "ArrayMetadata" /\ m.payload_size_ > 0 /\ m.array_size_ > 0)

\* C19 witness: get_instance() has refused an ArrayMetadata with a payload size
\* above 0 and array size 0, leaving the storage pointer as it was
C19_Witness ==
  /\ call # None
  /\ call.op = "get_instance"
  /\ call.metadata.type = "ArrayMetadata"
  /\ call.metadata.payload_size_ = 16
  /\ call.metadata.array_size_ = 0
  /\ call.before = "storage before"
  /\ call.returned.storage = "storage before"
  /\ call.returned.result = "kErrorCodeStrArrayInvalidOption"


(***************************************************************************)
(* FixedString<MAXLEN>: a length and an inline array of MAXLEN characters. *)
(* The characters from data_[length_] on are undefined: they keep whatever *)
(* the memory held.  There is one object of each capacity.                 *)
(***************************************************************************)
Chars == {"a", "b"}
\* the instantiations FixedString<1> and FixedString<2>
Capacities == {1, 2}
ArraysOf(n) == [1..n -> Chars]
\* the std::string and (str, len) arguments
Sources == UNION {ArraysOf(n) : n \in 0..MaxLen}
\* what the arrays of the objects may hold before they are constructed
Memories ==
  {g \in [Capacities -> UNION {ArraysOf(n) : n \in Capacities}] :
     \A m \in Capacities : DOMAIN g[m] = 1..m}

length(this) == this.length_
str(this) == [i \in 1..this.length_ |-> this.data_[i]]
clear(this) == [this EXCEPT !.length_ = 0]
\* std::memcpy(dst, src, n) into the array dst
memcpy(dst, src, n) == [i \in DOMAIN dst |-> IF i <= n THEN src[i] ELSE dst[i]]
\* std::memcmp(a, b, n) == 0
memcmp_equal(a, b, n) == \A i \in 1..n : a[i] = b[i]

\* a mutant: the length is not cut to the capacity
assign_chars_uncut(MAXLEN, this, str_, len) ==
  [length_ |-> len, data_ |-> memcpy(this.data_, str_, len)]

\* assign(const CHAR* str, uint32_t len)
assign_chars(MAXLEN, this, str_, len) ==
  LET length_ == IF len > MAXLEN THEN MAXLEN ELSE len
  IN [length_ |-> length_, data_ |-> memcpy(this.data_, str_, length_)]

\* assign(const std::basic_string<CHAR>& str)
assign_string(MAXLEN, this, str_) ==
  LET length_ == IF Len(str_) > MAXLEN THEN MAXLEN ELSE Len(str_)
  IN [length_ |-> length_, data_ |-> memcpy(this.data_, str_, length_)]

\* assign(const FixedString<MAXLEN2, CHAR>& other): the condition asserted
AssignAssertion(MAXLEN2, other) == length(other) < MAXLEN2

\* assign(const FixedString<MAXLEN2, CHAR>& other): the two statements
assign(MAXLEN, this, other) ==
  LET length_ == IF length(other) > MAXLEN THEN MAXLEN ELSE length(other)
  IN [length_ |-> length_, data_ |-> memcpy(this.data_, other.data_, length_)]

\* operator==(const FixedString<MAXLEN2, CHAR>& other)
Equals(this, other) ==
  IF this.length_ = 0 THEN length(other) = 0
  ELSE /\ this.length_ = length(other)
       /\ memcmp_equal(this.data_, other.data_, this.length_)

\* a failed ASSERT_ND has ended the program
Aborted == call # None /\ call.aborted

InitStrings ==
  /\ data_ = initialize(FALSE, FALSE, TRUE, FALSE, 0)
  /\ pc = [t \in Threads |-> "idle"]
  /\ ver = [t \in Writers |-> {}]
  /\ cycles = 0
  /\ created = None
  /\ sect = NoSection
  /\ rd = [r \in Readers |-> NoReading]
  /\ call = None
  /\ page = None
  /\ strings \in {[m \in Capacities |-> [length_ |-> 0, data_ |-> g[m]]] :
                    g \in Memories}
  /\ metas = None
  /\ savepoint = None


\* what the object under construction holds before its constructor runs
Uninitialized(m) ==
  {[length_ |-> n, data_ |-> g] : n \in {0, MaxLen}, g \in ArraysOf(m)}
\* the object a call works on: a new one, or the one of capacity m
Receivers(m, constructing) ==
  IF constructing THEN Uninitialized(m) ELSE {strings[m]}

\* FixedString(): only length_ is set
FixedStringDefault(m) ==
  /\ ~Aborted
  /\ \E this \in Uninitialized(m) :
       strings' = [strings EXCEPT ![m] = [this EXCEPT !.length_ = 0]]
  /\ call' = [op |-> "FixedString", target |-> m, aborted |-> FALSE]
  /\ UNCHANGED <<protocol, page, metas, savepoint>>

\* FixedString(other), operator=(other) and assign(other), other another
\* FixedString: where ASSERT_ND is compiled in, a false condition ends the
\* program; where it is compiled out, the two statements run
AssignFixedString(m, m2, constructing) ==
  /\ ~Aborted
  /\ LET other == strings[m2]
         asserted == AssignAssertion(m2, other)
         sent(aborted) ==
           [op |-> "assign", target |-> m, other |-> m2, source |-> str(other),
            n |-> length(other),
            assertion |-> asserted, aborted |-> aborted]
     IN \/ /\ ~asserted
           /\ call' = sent(TRUE)
           /\ UNCHANGED strings
        \/ /\ \E this \in Receivers(m, constructing) :
                strings' = [strings EXCEPT ![m] = assign(m, this, other)]
           /\ call' = sent(FALSE)
  /\ UNCHANGED <<protocol, page, metas, savepoint>>

\* FixedString(str), operator=(str) and assign(str), str a std::string
AssignString(m, str_, constructing) ==
  /\ ~Aborted
  /\ \E this \in Receivers(m, constructing) :
       strings' = [strings EXCEPT ![m] = assign_string(m, this, str_)]
  /\ call' = [op |-> "assign_string", target |-> m, source |-> str_,
              n |-> Len(str_), aborted |-> FALSE]
  /\ UNCHANGED <<protocol, page, metas, savepoint>>

\* FixedString(str, len), FixedString(str) and assign(str, len), str a buffer
\* of at least len characters
AssignChars(m, str_, len, constructing) ==
  /\ ~Aborted
  /\ len <= Len(str_)
  /\ \E this \in Receivers(m, constructing) :
       strings' = [strings EXCEPT ![m] = assign_chars(m, this, str_, len)]
  /\ call' = [op |-> "assign_chars", target |-> m, source |-> str_,
              n |-> len, aborted |-> FALSE]
  /\ UNCHANGED <<protocol, page, metas, savepoint>>

Clear(m) ==
  /\ ~Aborted
  /\ strings' = [strings EXCEPT ![m] = clear(strings[m])]
  /\ call' = [op |-> "clear", target |-> m, aborted |-> FALSE]
  /\ UNCHANGED <<protocol, page, metas, savepoint>>

Compare(m, m2) ==
  /\ ~Aborted
  /\ call' = [op |-> "==", target |-> m, other |-> m2,
              result |-> Equals(strings[m], strings[m2]), aborted |-> FALSE]
  /\ UNCHANGED <<protocol, page, components>>

NextStrings ==
  \E m \in Capacities :
     \/ FixedStringDefault(m)
     \/ Clear(m)
     \/ \E m2 \in Capacities : Compare(m, m2)
     \/ \E constructing \in BOOLEAN :
          \/ \E m2 \in Capacities \ {m} : AssignFixedString(m, m2, constructing)
          \/ \E str_ \in Sources :
               \/ AssignString(m, str_, constructing)
               \/ \E len \in {0, Len(str_)} : AssignChars(m, str_, len, constructing)

SpecStrings == InitStrings /\ [][NextStrings]_vars

AssignOps == {"assign", "assign_string", "assign_chars"}
Truncated(source, n, MAXLEN) ==
  [i \in 1..(IF n > MAXLEN THEN MAXLEN ELSE n) |-> source[i]]

\* C28: the length of a FixedString never exceeds its capacity; an assignment
\* or construction from a source of length n stores exactly the first
\* min(n, MAXLEN) characters of the source; operator== is true exactly when the
\* two strings have the same length and the same stored characters, whatever
\* their capacities.
C28_FixedStringBounded ==
  /\ \A m \in Capacities :
       length(strings[m]) <= m /\ DOMAIN strings[m].data_ = 1..m
  /\ (call # None /\ call.op \in AssignOps /\ ~call.aborted)
       => str(strings[call.target]) = Truncated(call.source, call.n, call.target)
  /\ (call # None /\ call.op = "==")
       => (call.result <=> str(strings[call.target]) = str(strings[call.other]))

\* a two-character std::string was cut to the one-character capacity, and
\* the result equals the one-character string of the larger capacity, whose
\* array differs behind the length
C28_Witness ==
  /\ call # None /\ call.op = "assign_string"
  /\ call.n > call.target
  /\ \E m2 \in Capacities \ {call.target} :
       /\ Equals(strings[call.target], strings[m2])
       /\ m2 > call.target
       /\ length(strings[m2]) = 1
       /\ strings[m2].data_[2] # strings[call.target].data_[1]

\* C29: assign(const FixedString&) is never entered with its asserted
\* condition false, whatever valid source it is given.
C29_AssignAssertionHolds ==
  (call # None /\ call.op = "assign") => call.assertion


(***************************************************************************)
(* storage::Metadata: the four common fields.  name_ is a StorageName, a   *)
(* FixedString held inline; copying one to another of the same type is the  *)
(* member-wise copy of the class, which has no copy operation of its own    *)
(* for its own type.  There are two Metadata objects.                       *)
(***************************************************************************)
StorageNames ==
  {[length_ |-> 0, data_ |-> <<"b", "a">>], [length_ |-> 1, data_ |-> <<"a", "b">>],
   [length_ |-> 2, data_ |-> <<"a", "b">>]}
StorageTypes == {0, 1}
MetadataValues ==
  [id_ : {1, 4}, type_ : StorageTypes, name_ : StorageNames,
   root_snapshot_page_id_ : PageIds]
MetadataObjects == {"x", "y"}

\* explicit Metadata(const Metadata& other)
Metadata(other) ==
  [id_ |-> other.id_, type_ |-> other.type_, name_ |-> other.name_,
   root_snapshot_page_id_ |-> other.root_snapshot_page_id_]

\* Metadata& operator=(const Metadata& other)
operator_assign(this, other) ==
  [this EXCEPT !.id_ = other.id_, !.type_ = other.type_, !.name_ = other.name_,
               !.root_snapshot_page_id_ = other.root_snapshot_page_id_]

\* a mutant: the snapshot page pointer is not copied
clone_base_three_fields(this, cloned) ==
  [cloned EXCEPT !.id_ = this.id_, !.type_ = this.type_, !.name_ = this.name_]

\* void clone_base(Metadata* cloned) const: the new value of *cloned
clone_base(this, cloned) ==
  [cloned EXCEPT !.id_ = this.id_, !.type_ = this.type_, !.name_ = this.name_,
                 !.root_snapshot_page_id_ = this.root_snapshot_page_id_]

InitMetadata ==
  /\ data_ = initialize(FALSE, FALSE, TRUE, FALSE, 0)
  /\ pc = [t \in Threads |-> "idle"]
  /\ ver = [t \in Writers |-> {}]
  /\ cycles = 0
  /\ created = None
  /\ sect = NoSection
  /\ rd = [r \in Readers |-> NoReading]
  /\ call = None
  /\ page = None
  /\ strings = None
  /\ metas \in [MetadataObjects -> MetadataValues]
  /\ savepoint = None

\* one of the three copies, from the object src to the object dst
CopyMetadata(op, src, dst) ==
  /\ call = None
  /\ src # dst
  /\ LET copy == CASE op = "Metadata" -> Metadata(metas[src])
                   [] op = "operator=" -> operator_assign(metas[dst], metas[src])
                   [] op = "clone_base" -> clone_base(metas[src], metas[dst])
     IN /\ metas' = [metas EXCEPT ![dst] = copy]
        /\ call' = [op |-> op, src |-> src, dst |-> dst, before |-> metas,
                    copied |-> [metas EXCEPT ![dst] = copy], changed |-> "none"]
  /\ UNCHANGED <<protocol, page, strings, savepoint>>

\* a later change of one field of one of the two objects
ChangeMetadata(o, value) ==
  /\ call # None /\ call.changed = "none"
  /\ \E field \in {"id_", "type_", "name_", "root_snapshot_page_id_"} :
       /\ metas[o][field] # value[field]
       /\ metas' = [metas EXCEPT ![o][field] = value[field]]
  /\ call' = [call EXCEPT !.changed = o]
  /\ UNCHANGED <<protocol, page, strings, savepoint>>

NextMetadata ==
  \E o \in MetadataObjects :
     \/ \E src \in MetadataObjects :
          \/ CopyMetadata("Metadata", src, o)
          \/ CopyMetadata("operator=", src, o)
          \/ CopyMetadata("clone_base", src, o)
     \/ \E value \in MetadataValues : ChangeMetadata(o, value)

SpecMetadata == InitMetadata /\ [][NextMetadata]_vars

SameCommonFields(a, b) ==
  /\ a.id_ = b.id_
  /\ a.type_ = b.type_
  /\ Equals(a.name_, b.name_) /\ str(a.name_) = str(b.name_)
  /\ a.root_snapshot_page_id_ = b.root_snapshot_page_id_

\* C21: after the copy constructor, operator= or clone_base, the target has
\* the id, type, name and root_snapshot_page_id the source had, the source is
\* as it was, and a later change of one object leaves the other as the copy
\* left it.
C21_MetadataCopy ==
  call # None =>
    IF call.changed = "none"
    THEN /\ SameCommonFields(metas[call.dst], call.before[call.src])
         /\ metas[call.src] = call.before[call.src]
    ELSE \A o \in MetadataObjects \ {call.changed} : metas[o] = call.copied[o]

\* a copy changed the target in all four fields, and the source was then
\* given another name
C21_Witness ==
  /\ call # None /\ call.changed = call.src
  /\ LET was == call.before[call.dst]
         now == metas[call.dst]
     IN /\ was.id_ # now.id_ /\ was.type_ # now.type_
        /\ was.root_snapshot_page_id_ # now.root_snapshot_page_id_
        /\ ~Equals(was.name_, now.name_)
        /\ ~Equals(metas[call.src].name_, now.name_)


\* C22: whenever unlock_version() reaches its assertion, the two counters it
\* has computed share no bit: (insertion_counter & split_counter) == 0.
C22_UnlockAssertionHolds ==
  \A t \in Writers : pc[t] = "unlock_store" => UnlockAssertion(ver[t])


(***************************************************************************)
(* The key count mutators, called once on a locked word.                   *)
(***************************************************************************)
\* the words a locked page may hold: the key count and the two counters at
\* their ends, and bit 32 as the increments leave it
KeyCountWords ==
  {PageVersion(initialize(TRUE, has, TRUE, FALSE, 0)
                 \cup ShiftLeft(key_count, kPageVersionKeyCountShifts)
                 \cup ShiftLeft(c.ic, kPageVersionInsertionCounterShifts)
                 \cup ShiftLeft(c.sc, kPageVersionSplitCounterShifts)
                 \cup carried) :
     has \in BOOLEAN, key_count \in FieldValues(kPageVersionKeyCountMask),
     c \in UsedCounters \cup {[ic |-> 0, sc |-> 0]}, carried \in {{}, Bit(32)}}

\* the key counts a caller may ask for: those of the 16-bit field
KeyCounts == {0, 1, 255, 256, 65535}

InitKeyCount ==
  /\ data_ \in KeyCountWords
  /\ pc = [t \in Threads |-> "idle"]
  /\ ver = [t \in Writers |-> {}]
  /\ cycles = 0
  /\ created = None
  /\ sect = NoSection
  /\ rd = [r \in Readers |-> NoReading]
  /\ call = None
  /\ page = None
  /\ strings = None
  /\ metas = None
  /\ savepoint = None

SetKeyCountCall ==
  /\ call = None
  /\ is_locked(data_)
  /\ \E key_count \in KeyCounts :
       /\ data_' = set_key_count(data_, key_count)
       /\ call' = [op |-> "set_key_count", before |-> data_, key_count |-> key_count]
  /\ UNCHANGED <<pc, ver, cycles, created, sect, rd, page, components>>

IncrementKeyCountCall ==
  /\ call = None
  /\ is_locked(data_)
  /\ data_' = increment_key_count(data_)
  /\ call' = [op |-> "increment_key_count", before |-> data_]
  /\ UNCHANGED <<pc, ver, cycles, created, sect, rd, page, components>>

SetInsertingAndIncrementKeyCountCall ==
  /\ call = None
  /\ is_locked(data_)
  /\ data_' = set_inserting_and_increment_key_count(data_)
  /\ call' = [op |-> "set_inserting_and_increment_key_count", before |-> data_]
  /\ UNCHANGED <<pc, ver, cycles, created, sect, rd, page, components>>

NextKeyCount ==
  \/ SetKeyCountCall
  \/ IncrementKeyCountCall
  \/ SetInsertingAndIncrementKeyCountCall

SpecKeyCount == InitKeyCount /\ [][NextKeyCount]_vars

\* C23: after set_key_count(k), k in 0..65535, get_key_count() is k, and no bit
\* outside the key count field has changed.
C23_SetKeyCountRoundTrip ==
  (call # None /\ call.op = "set_key_count") =>
    /\ get_key_count(data_) = call.key_count
    /\ Differ(data_, call.before) \subseteq kPageVersionKeyCountMask

\* C24: increment_key_count() and set_inserting_and_increment_key_count()
\* change no bit outside the key count field, bits 16..31, but the inserting
\* bit in the second; so the two counters are as before.
C24_IncrementStaysInField ==
  /\ (call # None /\ call.op = "increment_key_count") =>
       Differ(data_, call.before) \subseteq kPageVersionKeyCountMask
  /\ (call # None /\ call.op = "set_inserting_and_increment_key_count") =>
       Differ(data_, call.before)
         \subseteq (kPageVersionKeyCountMask \cup kPageVersionInsertingBit)


\* C25: lock_version() changes only the locked bit.  A read of the word by a
\* thread in lock_version() leaves it as it is; the compare-and-swap that
\* succeeds replaces an unlocked word, the one the thread read, by that word
\* with bit 63 set; the compare-and-swap that fails leaves the word as it is.
\* So what the holder has written is never overwritten by another thread's
\* lock_version().
C25_LockChangesLockedBitOnly ==
  [][\A t \in Writers :
       /\ (pc[t] \in {"idle", "lock_loop"} /\ pc'[t] \in {"lock_loop", "lock_cas"}
             /\ pc'[t] # pc[t])
            => data_' = data_
       /\ (pc[t] = "lock_cas" /\ pc'[t] = "locked")
            => /\ data_ = ver[t]
               /\ ~is_locked(data_)
               /\ data_' = data_ \cup kPageVersionLockedBit
       /\ (pc[t] = "lock_cas" /\ pc'[t] = "lock_loop")
            => data_' = data_]_vars

\* the holder has changed the word since it took the lock, and the other
\* thread is at its compare-and-swap with the word read before the lock was
\* taken
C25_Witness ==
  \E t, u \in Writers :
     /\ pc[t] = "locked" /\ pc[u] = "lock_cas"
     /\ ver[u] = sect.pre
     /\ data_ # sect.pre \cup kPageVersionLockedBit


\* the step in which reader r makes the first read of a call of stable_version()
FirstReadStep(r) == pc[r] \in {"idle", "read"} /\ pc'[r] # pc[r]

\* C26: stable_version() does not wait for the lock.  A call whose first read
\* finds the word locked with neither inserting nor splitting set returns on
\* that read, and the word it returns is that word, locked bit set.  A critical
\* section that set neither flag ends with both counters as they were, whatever
\* it did to the key count and to has_foster_child.
C26_StableVersionIgnoresLock ==
  /\ [][\A r \in Readers :
          (FirstReadStep(r) /\ is_locked(data_) /\ Unflagged(data_))
            => /\ pc'[r] \in {"read", "done"}
               /\ (IF pc[r] = "idle" THEN rd'[r].v1 ELSE rd'[r].v2) = data_]_vars
  /\ [](sect.phase = "ended" /\ ~sect.ins /\ ~sect.spl
          => SameCounters(data_, sect.pre))

\* the reader's first call returned a locked word while the holder had set no
\* flag; the holder then changed the key count and has_foster_child and
\* unlocked, and the counters are those of the word the reader holds
C26_Witness ==
  \E r \in Readers :
     /\ pc[r] = "read"
     /\ is_locked(rd[r].v1) /\ Unflagged(rd[r].v1)
     /\ sect.phase = "ended" /\ ~is_locked(data_)
     /\ SameCounters(rd[r].v1, sect.pre)
     /\ SameCounters(data_, rd[r].v1)
     /\ get_key_count(data_) # get_key_count(rd[r].v1)
     /\ has_foster_child(data_) # has_foster_child(rd[r].v1)


(***************************************************************************)
(* lock_version() called by the thread that already holds the lock.        *)
(***************************************************************************)
\* the first read of lock_version() called by the holder t; the turns of the
\* loop that follow are those of LockRead
LockAgain(t) ==
  /\ pc[t] = "locked"
  /\ call = None
  /\ call' = [op |-> "lock_version", thread |-> t, word |-> data_]
  /\ IF LockVersionContinues(data_)
     THEN pc' = [pc EXCEPT ![t] = "lock_loop"] /\ ver' = [ver EXCEPT ![t] = {}]
     ELSE pc' = [pc EXCEPT ![t] = "lock_cas"] /\ ver' = [ver EXCEPT ![t] = data_]
  /\ UNCHANGED <<data_, cycles, created, sect, rd, page, components>>

NextAgain ==
  \/ Next
  \/ \E t \in Writers : LockAgain(t)

\* the writers, one of which may call lock_version() while it holds the lock
SpecAgain == Init /\ [][NextAgain]_vars

\* C27: from the moment the holder of the lock calls lock_version() again,
\* that call has not returned: the thread is in the loop of lock_version(), the
\* word is the locked word the call found, and no thread holds the lock as a
\* caller that could unlock it.
C27_LockNotReentrant ==
  call # None =>
    /\ pc[call.thread] = "lock_loop"
    /\ is_locked(data_) /\ data_ = call.word
    /\ \A t \in Writers : pc[t] \notin {"locked", "unlock_store"}

\* the holder changed the word, called lock_version() again and spins, and
\* the other thread spins with it
C27_Witness ==
  /\ call # None
  /\ call.word # sect.pre \cup kPageVersionLockedBit
  /\ \A t \in Writers : pc[t] = "lock_loop"


(***************************************************************************)
(* savepoint::Savepoint: two epochs and four vectors with one entry for    *)
(* each logger.  Savepoint() sets no member; load() sets them all from a   *)
(* file.                                                                   *)
(***************************************************************************)
LoggerCounts == 0..MaxLoggers
\* the values an entry or an epoch may hold before the call
PreviousEntries == {0, 3}
PreviousEpochs == {0, 5}
SavepointVectors ==
  {"oldest_log_files_", "oldest_log_files_offset_begin_",
   "current_log_files_", "current_log_files_offset_durable_"}

\* the savepoints the call may find: constructed, loaded or populated before,
\* with one entry for each of some number of loggers
PreviousSavepoints ==
  UNION {[current_epoch_ : PreviousEpochs, durable_epoch_ : PreviousEpochs,
          oldest_log_files_ : [1..count -> PreviousEntries],
          oldest_log_files_offset_begin_ : [1..count -> PreviousEntries],
          current_log_files_ : [1..count -> PreviousEntries],
          current_log_files_offset_durable_ : [1..count -> PreviousEntries]] :
           count \in LoggerCounts}

\* std::vector::resize(n, value): the first n entries kept, new ones value
resize(vector, n, value) ==
  [i \in 1..n |-> IF i <= Len(vector) THEN vector[i] ELSE value]

\* Savepoint::populate_empty(logger_count)
populate_empty(this, logger_count) ==
  [current_epoch_ |-> 2,
   durable_epoch_ |-> 1,
   oldest_log_files_ |-> resize(this.oldest_log_files_, logger_count, 0),
   oldest_log_files_offset_begin_ |->
     resize(this.oldest_log_files_offset_begin_, logger_count, 0),
   current_log_files_ |-> resize(this.current_log_files_, logger_count, 0),
   current_log_files_offset_durable_ |->
     resize(this.current_log_files_offset_durable_, logger_count, 0)]

InitSavepoint ==
  /\ data_ = initialize(FALSE, FALSE, TRUE, FALSE, 0)
  /\ pc = [t \in Threads |-> "idle"]
  /\ ver = [t \in Writers |-> {}]
  /\ cycles = 0
  /\ created = None
  /\ sect = NoSection
  /\ rd = [r \in Readers |-> NoReading]
  /\ call = None
  /\ page = None
  /\ strings = None
  /\ metas = None
  /\ savepoint \in PreviousSavepoints

PopulateEmpty ==
  /\ call = None
  /\ \E logger_count \in LoggerCounts :
       /\ savepoint' = populate_empty(savepoint, logger_count)
       /\ call' = [op |-> "populate_empty", logger_count |-> logger_count,
                   previous |-> savepoint]
  /\ UNCHANGED <<protocol, page, strings, metas>>

NextSavepoint == PopulateEmpty

SpecSavepoint == InitSavepoint /\ [][NextSavepoint]_vars

\* C30: after populate_empty(n), whatever the savepoint held before, the
\* current epoch is 2, the durable epoch is 1, and each of the four vectors has
\* n entries, all 0.
C30_PopulateEmpty ==
  call # None =>
    /\ savepoint.current_epoch_ = 2
    /\ savepoint.durable_epoch_ = 1
    /\ \A v \in SavepointVectors :
         savepoint[v] = [i \in 1..call.logger_count |-> 0]

====
